---- MODULE Spec2Model ----
(***************************************************************************)
(* A model of rpp (src/rpp.c): the reverse-DNS name construction           *)
(* (ip2revdns), the RDE controller lookup in a TXT answer set              *)
(* (rpp_getcontroller), the SETINPREF advertisement over TCP               *)
(* (advertise_inpref_to_remote_dst) and the top-level flow (main).         *)
(*                                                                         *)
(* Text is modelled as sequences of byte values (ASCII codes), C buffers   *)
(* as sequences of cells indexed from 0 (cell j is element j+1), a cell    *)
(* holding UNINIT until it is written.                                     *)
(*                                                                         *)
(* Four specifications:                                                    *)
(*   SpecRev  ip2revdns called on its own, any capacity                    *)
(*   SpecRes  rpp_getcontroller called on its own                          *)
(*   SpecAdv  advertise_inpref_to_remote_dst called on its own             *)
(*   Spec     the whole program, from main                                 *)
(***************************************************************************)
EXTENDS Integers, Sequences, FiniteSets, TLC

VARIABLES
  pc,            \* position in the program
  out,           \* the messages printed so far (tags)
  \* ---- ip2revdns
  orig,          \* the address text (parameter orig)
  reslen,        \* parameter reslen
  res,           \* the output buffer (parameter res), reslen cells
  resHigh,       \* highest index of res written so far, -1 when none
  ipfamily,      \* "AF_INET" | "AF_INET6" | "unset"
  ip6,           \* struct in6_addr ip6: 16 cells
  loopi,         \* the loop variable i of the IPv6 branch
  rlen,          \* the local rlen
  revRet,        \* the value ip2revdns returned, NONE before
  \* ---- rpp_getcontroller
  response,      \* what res_query did and left in answer[]: [status, wellformed, records]
  maxres,        \* parameter maxres (the code assigns to it)
  result,        \* the result buffer (parameter result)
  resultHigh,    \* highest index of result written so far, -1 when none
  readHigh,      \* highest rdata offset memcpy read, -1 when none
  copyLen,       \* the length handed to memcpy, NONE when memcpy was not called
  idx,           \* the loop variable i of the answer scan
  scanned,       \* the answer indices ns_parserr was called on, in order
  getRet,        \* the value rpp_getcontroller returned, NONE before
  \* ---- advertise_inpref_to_remote_dst
  ttl, locpreflist, preflist, servstringaddr,   \* the parameters
  sock,          \* "none" | "open" | "closed"
  connected,     \* "no" | "ok" | "failed"
  sends,         \* the send calls made, in order: [data, n]
  advRet,        \* the value advertise returned, NONE before
  \* ---- main
  argv,          \* the command line, argv[0] included
  action,        \* "RESOLVE" | "ADVERTISE" | "unset"
  prefix,        \* the local prefix[128], as the string it holds
  exitStatus     \* the process exit status, NONE while running

revVars  == <<orig, reslen, res, resHigh, ipfamily, ip6, loopi, rlen, revRet>>
getVars  == <<response, maxres, result, resultHigh, readHigh, copyLen, idx, scanned, getRet>>
advVars  == <<ttl, locpreflist, preflist, servstringaddr, sock, connected, sends, advRet>>
mainVars == <<argv, action, prefix, exitStatus>>
vars     == <<pc, out, revVars, getVars, advVars, mainVars>>

----------------------------------------------------------------------------
(* Values that stand for "no value". *)

\* a return value or exit status not produced yet (no C int of the program is this)
NONE == 1000000
\* the content of a buffer cell that was never written
UNINIT == -1

Min(a, b) == IF a < b THEN a ELSE b
Max(a, b) == IF a > b THEN a ELSE b

\* all sequences over S of length 0..n
RECURSIVE SeqsUpTo(_, _)
SeqsUpTo(S, n) ==
  IF n = 0 THEN {<<>>}
  ELSE LET shorter == SeqsUpTo(S, n - 1)
       IN  shorter \cup {Append(s, c) : s \in {t \in shorter : Len(t) = n - 1}, c \in S}

RECURSIVE Concat(_)
Concat(ss) == IF ss = <<>> THEN <<>> ELSE Head(ss) \o Concat(Tail(ss))

\* a fresh buffer of n cells
Fresh(n) == [j \in 1..n |-> UNINIT]

\* buf with cell j set to v; a write outside the buffer changes no cell of it
Poke(buf, j, v) == IF j >= 0 /\ j < Len(buf) THEN [buf EXCEPT ![j + 1] = v] ELSE buf

\* buf with the bytes of s written at cells off, off+1, ...; the bytes that fall
\* outside the buffer change no cell of it
PokeSeq(buf, off, s) ==
  [j \in 1..Len(buf) |-> IF j - 1 >= off /\ j - 1 < off + Len(s) THEN s[j - off] ELSE buf[j]]

\* the C string a buffer holds: its cells up to the first 0 (or to its end)
CStr(buf) ==
  LET zs == {j \in 1..Len(buf) : buf[j] = 0}
      n  == IF zs = {} THEN Len(buf) ELSE (CHOOSE j \in zs : \A k \in zs : j <= k) - 1
  IN  SubSeq(buf, 1, n)

----------------------------------------------------------------------------
(* printf's conversions. *)

RECURSIVE Digits(_)
Digits(n) == IF n < 10 THEN <<48 + n>> ELSE Digits(n \div 10) \o <<48 + (n % 10)>>

\* %d
FmtD(n) == IF n < 0 THEN <<45>> \o Digits(-n) ELSE Digits(n)

\* %x of a value 0..15
FmtX(n) == IF n < 10 THEN <<48 + n>> ELSE <<97 + (n - 10)>>

\* snprintf(buf + off, size, ...) where the formatted text is s: the buffer after the
\* call. size is a size_t: a negative int passed for it is a huge count, larger than
\* any text. At most size-1 bytes of s are stored, then a 0; nothing when size is 0.
SnStored(size, s) ==
  IF size = 0 THEN <<>>
  ELSE IF size < 0 THEN s \o <<0>>
  ELSE SubSeq(s, 1, Min(Len(s), size - 1)) \o <<0>>

SnBuf(buf, off, size, s) == PokeSeq(buf, off, SnStored(size, s))

\* the highest index snprintf wrote, given the highest so far
SnHigh(high, off, size, s) ==
  IF SnStored(size, s) = <<>> THEN high ELSE Max(high, off + Len(SnStored(size, s)) - 1)

----------------------------------------------------------------------------
(* Initial values of each group of variables while its function has not    *)
(* been called.                                                            *)

RevIdle ==
  /\ orig = <<>> /\ reslen = 0 /\ res = <<>> /\ resHigh = -1
  /\ ipfamily = "unset" /\ ip6 = Fresh(16) /\ loopi = 0 /\ rlen = 0 /\ revRet = NONE

GetIdle ==
  /\ response = [status |-> "none", wellformed |-> TRUE, records |-> <<>>]
  /\ maxres = 0 /\ result = <<>> /\ resultHigh = -1 /\ readHigh = -1
  /\ copyLen = NONE /\ idx = 0 /\ scanned = <<>> /\ getRet = NONE

AdvIdle ==
  /\ ttl = 0 /\ locpreflist = <<>> /\ preflist = <<>> /\ servstringaddr = <<>>
  /\ sock = "none" /\ connected = "no" /\ sends = <<>> /\ advRet = NONE

MainIdle ==
  /\ argv = <<>> /\ action = "unset" /\ prefix = <<>> /\ exitStatus = NONE

----------------------------------------------------------------------------
(* advertise_inpref_to_remote_dst                                          *)

\* "SETINPREF "
STR_SETINPREF == <<83, 69, 84, 73, 78, 80, 82, 69, 70, 32>>
\* "\t"
STR_TAB == <<9>>
\* "\r\n"
STR_CRLF == <<13, 10>>

\* sprintf(buff, "SETINPREF %d\t", ttl): a broken header, the separator left out
AdvHeader_NoTab(t) == STR_SETINPREF \o FmtD(t)

\* sprintf(buff, "SETINPREF %d\t", ttl): the text left in buff (bufflen is its length)
AdvHeader(t) == STR_SETINPREF \o FmtD(t) \o STR_TAB

\* what send(sock, data, len, flags) may return: -1, or the number of bytes taken
SendResults(data) == (-1) .. Len(data)

\* socket(PF_INET, SOCK_STREAM, IPPROTO_TCP), after servaddr was filled in
AdvSocket ==
  /\ pc = "adv_socket"
  /\ \E ok \in BOOLEAN :
       IF ok
         THEN /\ sock' = "open"
              /\ pc' = "adv_connect"
              /\ UNCHANGED <<out, advRet>>
         ELSE /\ out' = Append(out, "ERROR: socket() call failed")
              /\ advRet' = -1
              /\ pc' = "adv_ret"
              /\ UNCHANGED sock
  /\ UNCHANGED <<ttl, locpreflist, preflist, servstringaddr, connected, sends>>
  /\ UNCHANGED <<revVars, getVars, mainVars>>

\* connect(): a broken variant that reports the failure and goes on to send
AdvConnect_GoesOn ==
  /\ pc = "adv_connect"
  /\ \E ok \in BOOLEAN :
       IF ok
         THEN /\ connected' = "ok"
              /\ UNCHANGED out
         ELSE /\ connected' = "failed"
              /\ out' = Append(out, "ERROR: connection to the remote controller failed")
  /\ pc' = "adv_send1"
  /\ UNCHANGED <<ttl, locpreflist, preflist, servstringaddr, sock, sends, advRet>>
  /\ UNCHANGED <<revVars, getVars, mainVars>>

\* connect(sock, &servaddr, sizeof(servaddr)); the failure branch returns -2 and
\* holds no close(sock)
AdvConnect ==
  /\ pc = "adv_connect"
  /\ \E ok \in BOOLEAN :
       IF ok
         THEN /\ connected' = "ok"
              /\ pc' = "adv_send1"
              /\ UNCHANGED <<out, advRet>>
         ELSE /\ connected' = "failed"
              /\ out' = Append(out, "ERROR: connection to the remote controller failed")
              /\ advRet' = -2
              /\ pc' = "adv_ret"
  /\ UNCHANGED <<ttl, locpreflist, preflist, servstringaddr, sock, sends>>
  /\ UNCHANGED <<revVars, getVars, mainVars>>

\* one "if (send(sock, data, len, flags) != len) { printf; close(sock); return(code); }"
SendStep(here, data, flags, next, code) ==
  /\ pc = here
  /\ \E n \in SendResults(data) :
       /\ sends' = Append(sends, [data |-> data, flags |-> flags, n |-> n])
       /\ IF n # Len(data)
            THEN /\ out' = Append(out, "ERROR: failed to send routing prefs")
                 /\ sock' = "closed"
                 /\ advRet' = code
                 /\ pc' = "adv_ret"
            ELSE /\ pc' = next
                 /\ UNCHANGED <<out, sock, advRet>>
  /\ UNCHANGED <<ttl, locpreflist, preflist, servstringaddr, connected>>
  /\ UNCHANGED <<revVars, getVars, mainVars>>

AdvSendHeader   == SendStep("adv_send1", AdvHeader(ttl), "MSG_MORE", "adv_send2", -3)
AdvSendLocal    == SendStep("adv_send2", locpreflist, "MSG_MORE", "adv_send3", -4)
AdvSendTab      == SendStep("adv_send3", STR_TAB, "MSG_MORE", "adv_send4", -5)
AdvSendPrefs    == SendStep("adv_send4", preflist, "MSG_MORE", "adv_send5", -6)
AdvSendCrlf     == SendStep("adv_send5", STR_CRLF, "0", "adv_close", -7)

\* close(sock); return(0);
AdvClose ==
  /\ pc = "adv_close"
  /\ sock' = "closed"
  /\ advRet' = 0
  /\ pc' = "adv_ret"
  /\ UNCHANGED <<out, ttl, locpreflist, preflist, servstringaddr, connected, sends>>
  /\ UNCHANGED <<revVars, getVars, mainVars>>

NextAdv ==
  \/ AdvSocket \/ AdvConnect
  \/ AdvSendHeader \/ AdvSendLocal \/ AdvSendTab \/ AdvSendPrefs \/ AdvSendCrlf
  \/ AdvClose

\* the bytes the peer was handed: of each send, the part the call took
RECURSIVE Taken(_)
Taken(ss) ==
  IF ss = <<>> THEN <<>>
  ELSE SubSeq(Head(ss).data, 1, Max(Head(ss).n, 0)) \o Taken(Tail(ss))

\* the bytes passed to send, in call order
RECURSIVE Passed(_)
Passed(ss) == IF ss = <<>> THEN <<>> ELSE Head(ss).data \o Passed(Tail(ss))

(* The calls of SpecAdv: any ttl of a small set, the two lists any text over a
   two-letter alphabet up to MaxStr bytes, or the lists of the README example. *)
MaxStr == 2
\* the bytes '1' and ' '
AdvAlphabet == {49, 32}
\* "192.0.2.0/24 198.51.100.0/24"
EX_LOCAL == <<49, 57, 50, 46, 48, 46, 50, 46, 48, 47, 50, 52, 32, 49, 57, 56, 46, 53, 49, 46, 49, 48, 48, 46, 48, 47, 50, 52>>
\* "64552:0 64900:255 65001:127"
EX_PREFS == <<54, 52, 53, 53, 50, 58, 48, 32, 54, 52, 57, 48, 48, 58, 50, 53, 53, 32, 54, 53, 48, 48, 49, 58, 49, 50, 55>>
\* "192.0.2.55"
EX_CTRL == <<49, 57, 50, 46, 48, 46, 50, 46, 53, 53>>
Ttls == {-3600, -1, 0, 9, 10, 3600, 86400}
AdvLists == SeqsUpTo(AdvAlphabet, MaxStr)

InitAdv ==
  /\ pc = "adv_socket" /\ out = <<>>
  /\ RevIdle /\ GetIdle /\ MainIdle
  /\ ttl \in Ttls
  /\ locpreflist \in AdvLists \cup {EX_LOCAL}
  /\ preflist \in AdvLists \cup {EX_PREFS}
  /\ servstringaddr = EX_CTRL
  /\ sock = "none" /\ connected = "no" /\ sends = <<>> /\ advRet = NONE

SpecAdv == InitAdv /\ [][NextAdv]_vars

----------------------------------------------------------------------------
(* inet_pton, the C library's conversion that ip2revdns calls.             *)

P4Fail(st) == [st EXCEPT !.ok = FALSE]

\* one character of inet_pton(AF_INET, ...): decimal octets 0..255 without a
\* leading zero, separated by single dots
P4Step(st, ch) ==
  IF ~st.ok THEN st
  ELSE IF ch >= 48 /\ ch <= 57
    THEN LET new == st.tp[st.n] * 10 + (ch - 48)
         IN  IF st.saw /\ st.tp[st.n] = 0 THEN P4Fail(st)
             ELSE IF new > 255 THEN P4Fail(st)
             ELSE IF ~st.saw /\ st.octets = 4 THEN P4Fail(st)
             ELSE [st EXCEPT !.tp[st.n] = new,
                             !.octets = IF st.saw THEN @ ELSE @ + 1,
                             !.saw = TRUE]
  ELSE IF ch = 46 /\ st.saw
    THEN IF st.octets = 4 THEN P4Fail(st)
         ELSE [st EXCEPT !.n = @ + 1, !.saw = FALSE]
  ELSE P4Fail(st)

RECURSIVE P4Run(_, _)
P4Run(st, s) == IF s = <<>> THEN st ELSE P4Run(P4Step(st, Head(s)), Tail(s))

\* inet_pton(AF_INET, s, dst): [ok, bytes], bytes the 4 address bytes in textual order
Pton4(s) ==
  LET st == P4Run([ok |-> TRUE, tp |-> <<0, 0, 0, 0>>, n |-> 1, saw |-> FALSE, octets |-> 0], s)
  IN  [ok |-> st.ok /\ st.octets = 4, bytes |-> st.tp]

\* the value of a hexadecimal digit, -1 for any other character
XDigit(ch) ==
  IF ch >= 48 /\ ch <= 57 THEN ch - 48
  ELSE IF ch >= 97 /\ ch <= 102 THEN ch - 97 + 10
  ELSE IF ch >= 65 /\ ch <= 70 THEN ch - 65 + 10
  ELSE -1

P6Fail(st) == [st EXCEPT !.mode = "fail"]

\* one character, at index i of s, of inet_pton(AF_INET6, ...)
P6Step(st, s, i) ==
  LET ch == s[i] IN
  IF st.mode # "run" THEN st
  ELSE IF XDigit(ch) >= 0
    THEN IF st.saw = 4 THEN P6Fail(st)
         ELSE [st EXCEPT !.val = @ * 16 + XDigit(ch), !.saw = @ + 1]
  ELSE IF ch = 58
    THEN IF st.saw = 0
           THEN IF st.colonp # -1 THEN P6Fail(st)
                ELSE [st EXCEPT !.colonp = Len(st.tp), !.curtok = i + 1]
         ELSE IF i = Len(s) THEN P6Fail(st)
         ELSE IF Len(st.tp) + 2 > 16 THEN P6Fail(st)
         ELSE [st EXCEPT !.tp = @ \o <<st.val \div 256, st.val % 256>>,
                         !.saw = 0, !.val = 0, !.curtok = i + 1]
  ELSE IF ch = 46 /\ Len(st.tp) + 4 <= 16 /\ Pton4(SubSeq(s, st.curtok, Len(s))).ok
    THEN [st EXCEPT !.tp = @ \o Pton4(SubSeq(s, st.curtok, Len(s))).bytes,
                    !.saw = 0, !.mode = "break"]
  ELSE P6Fail(st)

RECURSIVE P6Run(_, _, _)
P6Run(st, s, i) == IF i > Len(s) THEN st ELSE P6Run(P6Step(st, s, i), s, i + 1)

\* inet_pton(AF_INET6, s, dst): [ok, bytes], bytes the 16 address bytes
Pton6(s) ==
  LET lead  == s # <<>> /\ s[1] = 58
      start == IF lead THEN 2 ELSE 1
      st0   == [mode |-> IF lead /\ (Len(s) < 2 \/ s[2] # 58) THEN "fail" ELSE "run",
                tp |-> <<>>, colonp |-> -1, saw |-> 0, val |-> 0, curtok |-> start]
      st1   == P6Run(st0, s, start)
      st2   == IF st1.mode = "fail" \/ st1.saw = 0 THEN st1
               ELSE IF Len(st1.tp) + 2 > 16 THEN P6Fail(st1)
               ELSE [st1 EXCEPT !.tp = @ \o <<st1.val \div 256, st1.val % 256>>]
      tp3   == IF st2.colonp = -1 THEN st2.tp
               ELSE SubSeq(st2.tp, 1, st2.colonp)
                    \o [j \in 1..(16 - Len(st2.tp)) |-> 0]
                    \o SubSeq(st2.tp, st2.colonp + 1, Len(st2.tp))
      ok    == /\ st2.mode # "fail"
               /\ (st2.colonp # -1 => Len(st2.tp) < 16)
               /\ Len(tp3) = 16
  IN  [ok |-> ok, bytes |-> IF ok THEN tp3 ELSE <<>>]

----------------------------------------------------------------------------
(* ip2revdns                                                               *)

\* a NULL orig: no C string holds this value
NULLPTR == <<UNINIT>>

\* ".in-addr.arpa"
STR_INADDR == <<46, 105, 110, 45, 97, 100, 100, 114, 46, 97, 114, 112, 97>>
\* "ip6.arpa"
STR_IP6ARPA == <<105, 112, 54, 46, 97, 114, 112, 97>>
\* "."
STR_DOT == <<46>>

\* "*res = 0; return(-1);"
RevReject ==
  /\ res' = Poke(res, 0, 0)
  /\ resHigh' = Max(resHigh, 0)
  /\ revRet' = -1
  /\ pc' = "rev_ret"

\* is it ip4 or ip6? a '.' at index 1, 2 or 3 of orig
DetectFamily(o) ==
  IF o[2] = 46 \/ o[3] = 46 \/ o[4] = 46 THEN "AF_INET" ELSE "AF_INET6"

\* the input checks and the family detection
RevCheck ==
  /\ pc = "rev_entry"
  /\ IF orig = NULLPTR \/ Len(orig) < 4
       THEN /\ RevReject
            /\ UNCHANGED ipfamily
       ELSE /\ ipfamily' = DetectFamily(orig)
            /\ pc' = "rev_pton"
            /\ UNCHANGED <<res, resHigh, revRet>>
  /\ UNCHANGED <<out, orig, reslen, ip6, loopi, rlen>>
  /\ UNCHANGED <<getVars, advVars, mainVars>>

\* convert str to binary: inet_pton(ipfamily, orig, &(ip6.s6_addr))
RevPton ==
  /\ pc = "rev_pton"
  /\ LET r == IF ipfamily = "AF_INET" THEN Pton4(orig) ELSE Pton6(orig)
     IN  IF ~r.ok
           THEN /\ RevReject
                /\ UNCHANGED <<ip6, loopi, rlen>>
           ELSE /\ ip6' = r.bytes \o SubSeq(ip6, Len(r.bytes) + 1, 16)
                /\ loopi' = 15
                /\ rlen' = 0
                /\ pc' = IF ipfamily = "AF_INET" THEN "rev_fmt4" ELSE "rev_fmt6"
                /\ UNCHANGED <<res, resHigh, revRet>>
  /\ UNCHANGED <<out, orig, reslen, ipfamily>>
  /\ UNCHANGED <<getVars, advVars, mainVars>>

\* "%d.%d.%d.%d.in-addr.arpa" of s6_addr[3], [2], [1], [0]
Fmt4(a) ==
  FmtD(a[4]) \o STR_DOT \o FmtD(a[3]) \o STR_DOT \o FmtD(a[2]) \o STR_DOT \o FmtD(a[1])
  \o STR_INADDR

\* "%x.%x." of s6_addr[i] & 0x0F and s6_addr[i] >> 4
Fmt6(b) == FmtX(b % 16) \o STR_DOT \o FmtX(b \div 16) \o STR_DOT

\* the IPv4 branch: one snprintf, its return value not looked at
RevFmt4 ==
  /\ pc = "rev_fmt4"
  /\ res' = SnBuf(res, 0, reslen, Fmt4(ip6))
  /\ resHigh' = SnHigh(resHigh, 0, reslen, Fmt4(ip6))
  /\ revRet' = 0
  /\ pc' = "rev_ret"
  /\ UNCHANGED <<out, orig, reslen, ipfamily, ip6, loopi, rlen>>
  /\ UNCHANGED <<getVars, advVars, mainVars>>

\* one iteration of "for (i = 15; i >= 0; i--)"
RevFmt6 ==
  /\ pc = "rev_fmt6"
  /\ loopi >= 0
  /\ LET s  == Fmt6(ip6[loopi + 1])
         r1 == SnBuf(res, rlen, reslen - rlen, s)
         h1 == SnHigh(resHigh, rlen, reslen - rlen, s)
     IN  /\ rlen' = rlen + Len(s)
         /\ IF rlen' >= reslen
              THEN /\ res' = Poke(r1, 0, 0)
                   /\ resHigh' = Max(h1, 0)
                   /\ revRet' = -1
                   /\ pc' = "rev_ret"
                   /\ UNCHANGED loopi
              ELSE /\ res' = r1
                   /\ resHigh' = h1
                   /\ loopi' = loopi - 1
                   /\ UNCHANGED <<revRet, pc>>
  /\ UNCHANGED <<out, orig, reslen, ipfamily, ip6>>
  /\ UNCHANGED <<getVars, advVars, mainVars>>

\* after the loop: the suffix, and "all fine"
RevSuffix ==
  /\ pc = "rev_fmt6"
  /\ loopi < 0
  /\ LET r1 == SnBuf(res, rlen, reslen - rlen, STR_IP6ARPA)
         h1 == SnHigh(resHigh, rlen, reslen - rlen, STR_IP6ARPA)
     IN  /\ rlen' = rlen + Len(STR_IP6ARPA)
         /\ IF rlen' >= reslen
              THEN /\ res' = Poke(r1, 0, 0)
                   /\ resHigh' = Max(h1, 0)
                   /\ revRet' = -1
              ELSE /\ res' = r1
                   /\ resHigh' = h1
                   /\ revRet' = 0
  /\ pc' = "rev_ret"
  /\ UNCHANGED <<out, orig, reslen, ipfamily, ip6, loopi>>
  /\ UNCHANGED <<getVars, advVars, mainVars>>

NextRev == RevCheck \/ RevPton \/ RevFmt4 \/ RevFmt6 \/ RevSuffix

(* The calls of SpecRev: orig any text over '1', '.', ':' up to MaxLen bytes, a
   sample of longer addresses, or NULL; reslen one of Capacities. *)
MaxLen == 7
\* the bytes '1', '.' and ':'
RevAlphabet == {49, 46, 58}
RevSamples == {
  <<50, 48, 51, 46, 48, 46, 49, 49, 51, 46, 49>>,                      \* 203.0.113.1
  <<50, 53, 53, 46, 50, 53, 53, 46, 50, 53, 53, 46, 50, 53, 53>>,      \* 255.255.255.255
  <<49, 46, 50, 46, 51, 46, 50, 53, 54>>,                              \* 1.2.3.256
  <<48, 49, 46, 50, 46, 51, 46, 52>>,                                  \* 01.2.3.4
  <<50, 48, 48, 49, 58, 100, 98, 56, 58, 58, 49>>,                     \* 2001:db8::1
  <<49, 58, 50, 58, 51, 58, 52, 58, 53, 58, 54, 58, 55, 58, 56>>,      \* 1:2:3:4:5:6:7:8
  <<58, 58, 49, 46, 50, 46, 51, 46, 52>>,                              \* ::1.2.3.4
  <<58, 58, 102, 102, 102, 102, 58, 49, 46, 50, 46, 51, 46, 52>>,      \* ::ffff:1.2.3.4
  <<98, 111, 103, 117, 115>> }                                         \* bogus
Capacities == {1, 4, 20, 21, 72, 73, 128}

InitRev ==
  /\ pc = "rev_entry" /\ out = <<>>
  /\ GetIdle /\ AdvIdle /\ MainIdle
  /\ orig \in SeqsUpTo(RevAlphabet, MaxLen) \cup RevSamples \cup {NULLPTR}
  /\ reslen \in Capacities
  /\ res = Fresh(reslen) /\ resHigh = -1
  /\ ipfamily = "unset" /\ ip6 = Fresh(16) /\ loopi = 0 /\ rlen = 0 /\ revRet = NONE

SpecRev == InitRev /\ [][NextRev]_vars

----------------------------------------------------------------------------
(* rpp_getcontroller                                                       *)

(* An answer record as ns_parserr delivers it: parsed is FALSE when ns_parserr
   fails on it; rdata is the record's data (for a TXT record, character-strings:
   a length byte, then that many bytes); beyond is what the memory after the
   rdata holds, which the code reads when it looks past the end of a short rdata. *)
Rec(rdata, beyond) == [parsed |-> TRUE, rdata |-> rdata, beyond |-> beyond]
BadRec == [parsed |-> FALSE, rdata |-> <<>>, beyond |-> <<>>]

\* ns_rr_rdata(rr)[k]; a byte past everything the model knows of is indeterminate
ByteAt(rec, k) ==
  LET mem == rec.rdata \o rec.beyond
  IN  IF k < Len(mem) THEN mem[k + 1] ELSE UNINIT

\* "if it doesn't start with 'RDE:', then ignore this entry", negated
IsRDE(rec) ==
  ~((ByteAt(rec, 1) # 82) \/ (ByteAt(rec, 2) # 68) \/ (ByteAt(rec, 3) # 69)
    \/ (ByteAt(rec, 4) # 58))

\* "if (rdata[0] < maxres) maxres = rdata[0]; maxres -= 4;": maxres afterwards
CopyLen(L, cap) == (IF L < cap THEN L ELSE cap) - 4

\* the bytes memcpy(result, rdata + 5, n) reads
Source(rec, n) == [j \in 1..n |-> ByteAt(rec, 5 + j - 1)]

MsgCount == Len(response.records)

\* "return(code);"
GetReturn(code) ==
  /\ getRet' = code
  /\ pc' = "get_ret"

\* the DNS answers a server may give: up to MaxAnswers records of TxtPool
MaxAnswers == 2
\* a TXT character-string: its length byte, then its content
TxtString(content) == <<Len(content)>> \o content
\* "RDE:"
STR_RDE == <<82, 68, 69, 58>>
\* n payload bytes, the digits 1, 2, ..., 9, 0, 1, ...
Pattern(n) == [j \in 1..n |-> 48 + (j % 10)]
TxtPool == {
  BadRec,
  Rec(TxtString(<<104, 101, 108, 108, 111>>), <<>>),                                   \* hello
  Rec(TxtString(<<82, 68, 69, 33, 120>>), <<>>),                                       \* RDE!x
  Rec(TxtString(STR_RDE \o <<49, 57, 56, 46, 53, 49, 46, 49, 48, 48, 46, 55>>), <<>>), \* RDE:198.51.100.7
  Rec(TxtString(STR_RDE \o <<49, 57, 50, 46, 48, 46, 50, 46, 53, 53>>), <<>>),         \* RDE:192.0.2.55
  Rec(TxtString(STR_RDE), <<>>),                                                       \* RDE:
  Rec(TxtString(STR_RDE \o Pattern(123)), <<>>),                                       \* length 127
  Rec(TxtString(STR_RDE \o Pattern(124)), <<>>),                                       \* length 128
  Rec(TxtString(STR_RDE \o Pattern(196)), <<>>),                                       \* length 200
  Rec(TxtString(<<82>>) \o TxtString(<<69, 58>> \o Pattern(66)), <<>>),                \* "R", then a 68-byte string "E:..."
  Rec(TxtString(<<>>), <<0, 0, 0, 0>>),                                                \* "", zeroes behind it
  Rec(<<20>> \o STR_RDE \o <<49, 50>>, <<>>) }                                         \* declares 20 bytes, holds 6

\* res_query(revname, C_IN, T_TXT, answer, sizeof(answer))
GetQuery ==
  /\ pc = "get_query"
  /\ \/ \* i < 0: res_query "fails" if no TXT record is found
        /\ response' = [response EXCEPT !.status = "failed"]
        /\ GetReturn(1)
     \/ \E wf \in BOOLEAN, recs \in SeqsUpTo(TxtPool, MaxAnswers) :
          /\ wf \/ recs = <<>>
          /\ response' = [status |-> "answered", wellformed |-> wf, records |-> recs]
          /\ pc' = "get_initparse"
          /\ UNCHANGED getRet
  /\ UNCHANGED <<out, maxres, result, resultHigh, readHigh, copyLen, idx, scanned>>
  /\ UNCHANGED <<revVars, advVars, mainVars>>

\* ns_initparse and ns_msg_count
GetInitparse ==
  /\ pc = "get_initparse"
  /\ IF ~response.wellformed THEN GetReturn(-3) /\ UNCHANGED idx
     ELSE IF MsgCount = 0 THEN GetReturn(1) /\ UNCHANGED idx
     ELSE idx' = 0 /\ pc' = "get_scan" /\ UNCHANGED getRet
  /\ UNCHANGED <<out, response, maxres, result, resultHigh, readHigh, copyLen, scanned>>
  /\ UNCHANGED <<revVars, advVars, mainVars>>

\* one iteration of the loop on a record that is not taken: ns_parserr fails
\* (return -4), or the record does not start with RDE: (continue)
GetScan ==
  /\ pc = "get_scan"
  /\ idx < MsgCount
  /\ LET rec == response.records[idx + 1]
     IN  /\ ~rec.parsed \/ ~IsRDE(rec)
         /\ scanned' = Append(scanned, idx)
         /\ IF ~rec.parsed
              THEN GetReturn(-4) /\ UNCHANGED idx
              ELSE idx' = idx + 1 /\ UNCHANGED <<getRet, pc>>
  /\ UNCHANGED <<out, response, maxres, result, resultHigh, readHigh, copyLen>>
  /\ UNCHANGED <<revVars, advVars, mainVars>>

(* One iteration of the loop on a record that starts with RDE:, lines 142-146.
   A negative maxres reaches memcpy as a size_t near its maximum: no such copy
   completes. The process dies on it, either before a byte is stored (a checked
   memcpy aborts, or the first read faults) or after the copy ran over the whole
   of result and past its end. *)
GetCopy ==
  /\ pc = "get_scan"
  /\ idx < MsgCount
  /\ LET rec == response.records[idx + 1]
         n   == CopyLen(ByteAt(rec, 0), maxres)
     IN  /\ rec.parsed /\ IsRDE(rec)
         /\ scanned' = Append(scanned, idx)
         /\ maxres' = n
         /\ copyLen' = n
         /\ IF n >= 0
              THEN /\ result' = Poke(PokeSeq(result, 0, Source(rec, n)), n, 0)
                   /\ resultHigh' = Max(resultHigh, n)
                   /\ readHigh' = IF n > 0 THEN Max(readHigh, 5 + n - 1) ELSE readHigh
                   /\ GetReturn(0)
                   /\ UNCHANGED exitStatus
              ELSE /\ \/ /\ UNCHANGED <<result, resultHigh, readHigh>>
                         /\ exitStatus' = 134
                      \/ /\ result' = PokeSeq(result, 0, Source(rec, Len(result)))
                         /\ resultHigh' = Max(resultHigh, Len(result))
                         /\ readHigh' = Max(readHigh, 5 + Len(result))
                         /\ exitStatus' = 139
                   /\ pc' = "crashed"
                   /\ UNCHANGED getRet
  /\ UNCHANGED <<out, response, idx>>
  /\ UNCHANGED <<revVars, advVars, argv, action, prefix>>

\* the loop ran through all the answers: return(1)
GetExhausted ==
  /\ pc = "get_scan"
  /\ idx >= MsgCount
  /\ GetReturn(1)
  /\ UNCHANGED <<out, response, maxres, result, resultHigh, readHigh, copyLen, idx, scanned>>
  /\ UNCHANGED <<revVars, advVars, mainVars>>

NextGet == GetQuery \/ GetInitparse \/ GetScan \/ GetCopy \/ GetExhausted

\* the capacities SpecRes calls rpp_getcontroller with
ResCaps == {5, 16, 128}

InitRes ==
  /\ pc = "get_query" /\ out = <<>>
  /\ RevIdle /\ AdvIdle /\ MainIdle
  /\ response = [status |-> "none", wellformed |-> TRUE, records |-> <<>>]
  /\ maxres \in ResCaps
  /\ result = Fresh(maxres) /\ resultHigh = -1 /\ readHigh = -1
  /\ copyLen = NONE /\ idx = 0 /\ scanned = <<>> /\ getRet = NONE

SpecRes == InitRes /\ [][NextGet]_vars

----------------------------------------------------------------------------
(* main                                                                    *)

\* "resolve"
STR_RESOLVE == <<114, 101, 115, 111, 108, 118, 101>>
\* "advertise"
STR_ADVERTISE == <<97, 100, 118, 101, 114, 116, 105, 115, 101>>

\* printhelp(); return(1); and the other returns of main
MainExit(status) ==
  /\ exitStatus' = status
  /\ pc' = "exit"

\* validate command and number of CLI arguments (argc is Len(argv), argv[k] is
\* element k+1)
MainArgs ==
  /\ pc = "main_entry"
  /\ IF Len(argv) = 3 /\ argv[2] = STR_RESOLVE
       THEN /\ action' = "RESOLVE"
            /\ pc' = "main_strip"
            /\ UNCHANGED <<out, locpreflist, preflist, exitStatus>>
     ELSE IF Len(argv) = 5 /\ argv[2] = STR_ADVERTISE
       THEN /\ action' = "ADVERTISE"
            /\ locpreflist' = argv[4]
            /\ preflist' = argv[5]
            /\ pc' = "main_strip"
            /\ UNCHANGED <<out, exitStatus>>
     ELSE /\ out' = Append(out, "usage")
          /\ MainExit(1)
          /\ UNCHANGED <<action, locpreflist, preflist>>
  /\ UNCHANGED <<argv, prefix>>
  /\ UNCHANGED <<ttl, servstringaddr, sock, connected, sends, advRet>>
  /\ UNCHANGED <<revVars, getVars>>

\* the copy loop of line 244: prefixorg up to its end, its first '/', or 127 bytes
RECURSIVE Strip(_, _)
Strip(s, room) ==
  IF s = <<>> \/ Head(s) = 47 \/ room = 0 THEN <<>>
  ELSE <<Head(s)>> \o Strip(Tail(s), room - 1)

\* cut the prefix, then call ip2revdns(revdns, sizeof(revdns), prefix)
MainStrip ==
  /\ pc = "main_strip"
  /\ prefix' = Strip(argv[3], 127)
  /\ orig' = prefix'
  /\ reslen' = 128
  /\ res' = Fresh(128)
  /\ pc' = "rev_entry"
  /\ UNCHANGED <<out, resHigh, ipfamily, ip6, loopi, rlen, revRet>>
  /\ UNCHANGED <<argv, action, exitStatus>>
  /\ UNCHANGED <<getVars, advVars>>

\* ip2revdns returned: give up, or call rpp_getcontroller(rdeaddr, sizeof(rdeaddr), revdns)
MainAfterRev ==
  /\ pc = "rev_ret"
  /\ IF revRet # 0
       THEN /\ out' = Append(out, "ERROR: failed to compute a reverse DNS")
            /\ MainExit(1)
            /\ UNCHANGED <<maxres, result>>
       ELSE /\ maxres' = 128
            /\ result' = Fresh(128)
            /\ pc' = "get_query"
            /\ UNCHANGED <<out, exitStatus>>
  /\ UNCHANGED <<response, resultHigh, readHigh, copyLen, idx, scanned, getRet>>
  /\ UNCHANGED <<argv, action, prefix>>
  /\ UNCHANGED <<revVars, advVars>>

\* the report of line 255-261
GetReport(i) ==
  IF i = 0 THEN "RDE controller is"
  ELSE IF i > 0 THEN "No RDE entry found"
  ELSE "ERROR: DNS failure"

\* rpp_getcontroller returned: report, stop if the action is 'resolve', or else
\* call advertise_inpref_to_remote_dst(locpreflist, 3600, rdeaddr, preflist)
MainAfterGet ==
  /\ pc = "get_ret"
  /\ IF action = "RESOLVE"
       THEN /\ out' = Append(out, GetReport(getRet))
            /\ MainExit(0)
            /\ UNCHANGED <<ttl, servstringaddr>>
       ELSE /\ out' = out \o <<GetReport(getRet), "Sending preferences...">>
            /\ ttl' = 3600
            /\ servstringaddr' = CStr(result)
            /\ pc' = "adv_socket"
            /\ UNCHANGED exitStatus
  /\ UNCHANGED <<locpreflist, preflist, sock, connected, sends, advRet>>
  /\ UNCHANGED <<argv, action, prefix>>
  /\ UNCHANGED <<revVars, getVars>>

\* advertise returned: "Done." on 0, and return(0) either way
MainAfterAdv ==
  /\ pc = "adv_ret"
  /\ out' = IF advRet = 0 THEN Append(out, "Done.") ELSE out
  /\ MainExit(0)
  /\ UNCHANGED <<argv, action, prefix>>
  /\ UNCHANGED <<revVars, getVars, advVars>>

NextMain == MainArgs \/ MainStrip \/ MainAfterRev \/ MainAfterGet \/ MainAfterAdv

Next == NextMain \/ NextRev \/ NextGet \/ NextAdv

(* The command lines of Spec. *)
\* "rpp"
STR_RPP == <<114, 112, 112>>
MainPrefixes == {
  <<50, 48, 51, 46, 48, 46, 49, 49, 51, 46, 48, 47, 50, 52>>,     \* 203.0.113.0/24
  <<50, 48, 48, 49, 58, 100, 98, 56, 58, 58, 47, 51, 50>>,        \* 2001:db8::/32
  <<58, 58, 49>>,                                                 \* ::1
  <<98, 111, 103, 117, 115>> }                                    \* bogus
MainArgvs ==
  {<<STR_RPP>>, <<STR_RPP, STR_RESOLVE>>}
  \cup {<<STR_RPP, cmd, p>> : cmd \in {STR_RESOLVE, STR_ADVERTISE, STR_RPP}, p \in MainPrefixes}
  \cup {<<STR_RPP, cmd, p, EX_LOCAL, EX_PREFS>> :
          cmd \in {STR_RESOLVE, STR_ADVERTISE}, p \in MainPrefixes}

Init ==
  /\ pc = "main_entry" /\ out = <<>>
  /\ RevIdle /\ GetIdle /\ AdvIdle
  /\ argv \in MainArgvs
  /\ action = "unset" /\ prefix = <<>> /\ exitStatus = NONE

Spec == Init /\ [][Next]_vars

----------------------------------------------------------------------------
(* Properties of advertise_inpref_to_remote_dst, checked under SpecAdv.    *)

\* send call k was made and took less than it was given
SendFailed(k) == k <= Len(sends) /\ sends[k].n # Len(sends[k].data)

\* C1: once socket() has succeeded, the socket is closed when advertise returns,
\* on every exit path: the function never returns with the socket open.
C1_SocketClosedOnReturn == pc = "adv_ret" => sock # "open"

\* the number a decimal text denotes: digits, after an optional '-'
RECURSIVE DigitsValue(_)
DigitsValue(d) ==
  IF d = <<>> THEN 0 ELSE DigitsValue(SubSeq(d, 1, Len(d) - 1)) * 10 + (d[Len(d)] - 48)

\* d is the decimal text of n as %d prints it: no sign but '-', no leading zero
IsDecimalOf(d, n) ==
  LET neg == d # <<>> /\ d[1] = 45
      ds  == IF neg THEN Tail(d) ELSE d
  IN  /\ ds # <<>>
      /\ \A j \in 1..Len(ds) : ds[j] >= 48 /\ ds[j] <= 57
      /\ Len(ds) > 1 => ds[1] # 48
      /\ neg => ds # <<48>>
      /\ n = (IF neg THEN -DigitsValue(ds) ELSE DigitsValue(ds))

\* C2: when socket, connect and every send succeed, the bytes passed to send, in
\* call order, are exactly "SETINPREF " + decimal ttl + TAB + localPrefixes + TAB +
\* preferenceList + CR LF, in five segments (header, local-prefix list, TAB,
\* preference list, CR LF), the peer is handed the same bytes, and advertise
\* returns 0.
C2_WireMessage ==
  (/\ pc = "adv_ret"
   /\ sock # "none"
   /\ connected = "ok"
   /\ \A k \in 1..Len(sends) : ~SendFailed(k))
  => /\ advRet = 0
     /\ Len(sends) = 5
     /\ LET h == sends[1].data
            d == SubSeq(h, Len(STR_SETINPREF) + 1, Len(h) - 1)
        IN  /\ Len(h) >= Len(STR_SETINPREF) + 2
            /\ h = STR_SETINPREF \o d \o <<9>>
            /\ IsDecimalOf(d, ttl)
     /\ sends[2].data = locpreflist
     /\ sends[3].data = <<9>>
     /\ sends[4].data = preflist
     /\ sends[5].data = <<13, 10>>
     /\ Passed(sends) = sends[1].data \o locpreflist \o <<9>> \o preflist \o <<13, 10>>
     /\ Taken(sends) = Passed(sends)

\* C2's case: the message of the README example went out in full
C2_Witness ==
  /\ pc = "adv_ret" /\ advRet = 0 /\ Len(sends) = 5
  /\ ttl = 3600 /\ locpreflist = EX_LOCAL /\ preflist = EX_PREFS

\* the code advertise returns when a stage fails
StageCode ==
  [socket |-> -1, connect |-> -2, send1 |-> -3, send2 |-> -4, send3 |-> -5,
   send4 |-> -6, send5 |-> -7]

SendStage == <<"send1", "send2", "send3", "send4", "send5">>

\* C3: the first failing stage (socket, connect, send 1..5) decides the returned
\* code and no later stage runs: a failed connect returns the connect code, which
\* is neither the socket code nor a send code, with no send call made and no byte
\* transmitted; no send follows a failed send.
C3_FirstFailureDecides ==
  /\ sends # <<>> => connected = "ok"
  /\ connected # "no" => sock # "none"
  /\ \A k \in 1..Len(sends) : SendFailed(k) => k = Len(sends)
  /\ pc = "adv_ret" =>
       /\ sock = "none" => advRet = StageCode.socket /\ connected = "no" /\ sends = <<>>
       /\ connected = "failed" =>
            /\ advRet = StageCode.connect
            /\ advRet \notin {StageCode.socket} \cup {StageCode[SendStage[k]] : k \in 1..5}
            /\ sends = <<>> /\ Taken(sends) = <<>>
       /\ \A k \in 1..5 : SendFailed(k) => advRet = StageCode[SendStage[k]]
       /\ advRet = 0 =>
            sock # "none" /\ connected = "ok" /\ \A k \in 1..Len(sends) : ~SendFailed(k)

\* C3's case: connect failed and advertise returned
C3_Witness == pc = "adv_ret" /\ connected = "failed" /\ advRet = -2

----------------------------------------------------------------------------
(* Properties of rpp_getcontroller, checked under SpecRes.                 *)

\* the record carries the tag: 'R','D','E',':' at offsets 1-4
HasTag(rec) ==
  LET mem == rec.rdata \o rec.beyond
  IN  Len(mem) >= 5 /\ SubSeq(mem, 2, 5) = STR_RDE

\* the length byte of a record
LenByte(rec) == ByteAt(rec, 0)

\* the indices (from 1) of the records at which a scan in server order stops: a
\* record that cannot be parsed, or one that carries the tag
Stops == {i \in 1..MsgCount : ~response.records[i].parsed \/ HasTag(response.records[i])}
FirstStop == CHOOSE i \in Stops : \A j \in Stops : i <= j

\* the scan reaches a record that carries the tag before any it cannot parse
FirstMatchExists ==
  /\ response.status = "answered" /\ response.wellformed
  /\ Stops # {} /\ response.records[FirstStop].parsed

\* rpp_getcontroller is over: it returned, or the process died in it
GetOver == pc \in {"get_ret", "crashed"}

\* buf holds the text s as a C string from its first cell
Holds(buf, s) == Len(s) < Len(buf) /\ SubSeq(buf, 1, Len(s)) = s /\ buf[Len(s) + 1] = 0

\* the usable payload of a matching record: of the bytes after the tag, those at
\* offsets 5 .. min(L, capacity)
UsablePayload(rec, cap) ==
  [j \in 1..(Min(LenByte(rec), cap) - 4) |-> ByteAt(rec, 4 + j)]

\* C4: records are scanned in server order, those without RDE: at offsets 1-4 are
\* skipped, and whenever the scan reaches a matching record before one it cannot
\* parse, resolve returns 0 with the payload of the first matching record as its
\* result (the bytes after the tag, as many as min(L, capacity) - 4 allows); the
\* scan stops there, so that no later record is looked at.
C4_FirstMatchWins ==
  (GetOver /\ FirstMatchExists)
  => /\ pc = "get_ret" /\ getRet = 0
     /\ scanned = [j \in 1..FirstStop |-> j - 1]
     /\ Holds(result, UsablePayload(response.records[FirstStop], Len(result)))

\* C5: the outcome of resolve is one of three: NotFound (1) when the query fails,
\* the answer set is empty, or every record parsed and none matches; Error (a
\* negative value) when the message cannot be parsed or a record before any match
\* cannot be parsed; Success (0) otherwise.
C5_ThreeOutcomes ==
  GetOver
  => /\ pc = "get_ret"
     /\ IF response.status = "failed" THEN getRet = 1
        ELSE IF ~response.wellformed THEN getRet < 0
        ELSE IF response.records = <<>> THEN getRet = 1
        ELSE IF Stops = {} THEN getRet = 1
        ELSE IF ~response.records[FirstStop].parsed THEN getRet < 0
        ELSE getRet = 0

\* C8: for every record that passes the RDE: test, whatever its length byte L, the
\* copy length min(L, capacity) - 4 is >= 0, the copy reads only bytes of the
\* record's declared content (offsets up to L), and every byte stored, the
\* terminator included, lands at an index 0..capacity-1 of the result buffer.
C8_CopyInBounds ==
  copyLen # NONE
  => /\ copyLen >= 0
     /\ readHigh <= LenByte(response.records[idx + 1])
     /\ resultHigh < Len(result)

----------------------------------------------------------------------------
(* Properties of ip2revdns, checked under SpecRev.                         *)

\* the text is a valid IPv4 or IPv6 address
ValidAddress(o) == o # NULLPTR /\ (Pton4(o).ok \/ Pton6(o).ok)

\* nibble k of a 16-byte address, nibble 0 the low half of the last byte
Nibble(b, k) ==
  LET byte == b[16 - (k \div 2)] IN IF k % 2 = 0 THEN byte % 16 ELSE byte \div 16

\* "in-addr.arpa"
STR_INADDR_ARPA == <<105, 110, 45, 97, 100, 100, 114, 46, 97, 114, 112, 97>>

\* the canonical reverse name of a valid address
Canonical(o) ==
  IF Pton4(o).ok
    THEN LET b == Pton4(o).bytes
         IN  Concat([k \in 1..4 |-> FmtD(b[5 - k]) \o <<46>>]) \o STR_INADDR_ARPA
    ELSE LET b == Pton6(o).bytes
         IN  Concat([k \in 1..32 |-> FmtX(Nibble(b, k - 1)) \o <<46>>]) \o STR_IP6ARPA

\* the name of a valid address, with its terminator, fits the capacity
Fits(o, cap) == Len(Canonical(o)) + 1 <= cap

\* C6: for every valid address and a sufficient capacity, reverse returns 0 and
\* writes the canonical name: d.c.b.a.in-addr.arpa for a.b.c.d, and for an IPv6
\* address its 32 nibbles, lowest first, each followed by '.', then ip6.arpa.
C6_CanonicalName ==
  (pc = "rev_ret" /\ ValidAddress(orig) /\ Fits(orig, reslen))
  => revRet = 0 /\ CStr(res) = Canonical(orig)

\* C7: reverse rejects, with a non-zero return and res[0] = 0, every input shorter
\* than 4 characters, every input that is no address, and every address of either
\* family whose name with its terminator does not fit the capacity; it never
\* returns 0 with a truncated name and never writes at an index >= capacity.
C7_RejectsCleanly ==
  /\ resHigh < reslen
  /\ pc = "rev_ret" =>
       /\ (orig = NULLPTR \/ Len(orig) < 4 \/ ~ValidAddress(orig) \/ ~Fits(orig, reslen))
            => revRet # 0 /\ res[1] = 0
       /\ revRet = 0 => ValidAddress(orig) /\ CStr(res) = Canonical(orig)

----------------------------------------------------------------------------
(* Properties of main, checked under Spec.                                 *)

\* advertise_inpref_to_remote_dst has been entered
AdvEntered == pc \in {"adv_socket", "adv_connect", "adv_send1", "adv_send2", "adv_send3",
                      "adv_send4", "adv_send5", "adv_close", "adv_ret"}

\* C9: with the advertise action, advertise is invoked only after resolve returned
\* Success, and with the address resolve wrote: when resolve returned NotFound or
\* Error, no socket is created and no connection is attempted.
C9_AdvertiseOnlyAfterSuccess ==
  /\ AdvEntered => getRet = 0 /\ servstringaddr = CStr(result)
  /\ (getRet # NONE /\ getRet # 0) => sock = "none" /\ connected = "no"

\* an error occurred in the run: a malformed invocation, no reverse name, a hard
\* DNS error, or a socket, connect or send failure
ErrorOccurred ==
  \/ action = "unset" /\ pc = "exit"
  \/ revRet # NONE /\ revRet # 0
  \/ getRet # NONE /\ getRet < 0
  \/ advRet # NONE /\ advRet # 0

\* C10: every run of main in which an error occurs ends with a non-zero exit
\* status; exit status 0 is returned only when no error occurred.
C10_ErrorsExitNonZero ==
  (pc = "exit" /\ ErrorOccurred) => exitStatus # 0

====
